---- MODULE Spec2Model ----
(***************************************************************************)
(* Metadata propagation in owid.catalog: Variable (a named column with a   *)
(* reference to a name-keyed dict of VariableMeta objects), Table (columns *)
(* plus one such dict, a defaultdict), the metadata merge done by the      *)
(* arithmetic operators, and the csv / feather + JSON sidecar codec.       *)
(*                                                                         *)
(* Python objects are modelled by reference: heap[i] is the VariableMeta   *)
(* object at address i, stores[s] is the dict object s (name -> address).  *)
(* Two dict entries holding the same address are the same Python object.   *)
(* Nothing is ever freed: an unreachable object stays in heap / stores.    *)
(***************************************************************************)
EXTENDS Integers, Sequences, FiniteSets, TLC

VARIABLES
    heap,       \* Seq of VariableMeta records, indexed by address
    stores,     \* Seq of dicts; stores[TStore] is the Table's _fields
    columns,    \* t.columns: Seq of column names
    index,      \* t.index.names: Seq of level names, None when unnamed
    tmeta,      \* t.metadata (TableMeta)
    vars,       \* the Variables the caller holds: handle -> Variable or NoVar
    disk,       \* what to_csv / to_feather last wrote, or NoFile
    rtab,       \* the Table read_csv / read_feather last returned, or NoTable
    last,       \* the last call: which, its arguments, how it ended
    ncalls      \* calls made so far

vars_all == <<heap, stores, columns, index, tmeta, vars, disk, rtab, last, ncalls>>

----------------------------------------------------------------------------
(* Bounds of the model *)

MaxCalls == 4       \* calls made on the Table and its Variables in one run

----------------------------------------------------------------------------
(* Values *)

None == "<None>"                                     \* Python's None
UNNAMED_VARIABLE == "**TEMPORARY UNNAMED VARIABLE**"

ItemHandles == {1, 2}       \* the caller's variables bound to t[c]
ResultHandles == {3}        \* the caller's variable bound to an operator's result
MergeResult == 4            \* the same, where handle 3 holds an operand
Handles == ItemHandles \cup ResultHandles \cup {MergeResult}
Scalars == {1, 2}

\* the operation tags of __add__ .. __pow__
OpTags == {"+", "-", "*", "/", "//", "%", "**"}

TStore == 1                 \* the Table's _fields dict

\* VariableMeta(): every field unknown / empty
VariableMeta ==
    [title |-> None, description |-> None, unit |-> None, short_unit |-> None,
     sources |-> <<>>, licenses |-> <<>>, processing_log |-> <<>>]

NoVar == [name |-> None, fields |-> 0]
NoFile == [codec |-> "none"]
NoTable == [codec |-> "none"]

\* dict operations
Put(m, k, v) == [n \in (DOMAIN m) \cup {k} |-> IF n = k THEN v ELSE m[n]]
Pop(m, k) == [n \in (DOMAIN m) \ {k} |-> m[n]]
EmptyDict == <<>>

\* defaultdict(VariableMeta) for a Table, plain dict for a Variable's own store
IsDefaultDict(s) == s = TStore

Mem == [heap |-> heap, stores |-> stores]

\* d[k] on dict object s: a defaultdict materialises VariableMeta() on a miss
dict_getitem(M, s, k) ==
    IF k \in DOMAIN M.stores[s]
    THEN [M |-> M, addr |-> M.stores[s][k], err |-> "ok"]
    ELSE IF IsDefaultDict(s)
    THEN [M |-> [heap |-> Append(M.heap, VariableMeta),
                 stores |-> [M.stores EXCEPT ![s] = Put(@, k, Len(M.heap) + 1)]],
          addr |-> Len(M.heap) + 1, err |-> "ok"]
    ELSE [M |-> M, addr |-> 0, err |-> "KeyError"]

----------------------------------------------------------------------------
(* Variable *)

\* `if not self.name: raise ValueError`: None and "" are both falsy
checked_name_ok(v) == v.name \notin {None, ""}

\* Variable.metadata (getter): self._fields[self.checked_name]
Variable_metadata(M, v) ==
    IF ~checked_name_ok(v)
    THEN [M |-> M, addr |-> 0, err |-> "ValueError"]
    ELSE dict_getitem(M, v.fields, v.name)

\* Variable.metadata (setter): self._fields[self.checked_name] = meta, where
\* meta is the object at address addr
Variable_metadata_set(M, v, addr) ==
    IF ~checked_name_ok(v)
    THEN [M |-> M, err |-> "ValueError"]
    ELSE [M |-> [M EXCEPT !.stores[v.fields] = Put(@, v.name, addr)], err |-> "ok"]

\* (faulty variant of name_moved: the record is copied, the old key kept)
name_moved_dup(m, old, name) == Put(m, name, m[old])

\* (faulty variant of name_moved: a record already under the new name is kept)
name_moved_keep(m, old, name) ==
    IF name \in DOMAIN m /\ name # old THEN Pop(m, old) ELSE Put(Pop(m, old), name, m[old])

\* self._fields[name] = self._fields.pop(self._name)
name_moved(m, old, name) == Put(Pop(m, old), name, m[old])

\* Variable.name (setter)
Variable_name_set(M, v, name) ==
    IF name = None
    THEN [M |-> M, v |-> [v EXCEPT !.name = None]]
    ELSE LET m0 == M.stores[v.fields]
             moves == v.name \notin {None, ""} /\ v.name \in DOMAIN m0
             m1 == IF moves THEN name_moved(m0, v.name, name) ELSE m0
             fresh == name \notin DOMAIN m1
             m2 == IF fresh THEN Put(m1, name, Len(M.heap) + 1) ELSE m1
         IN [M |-> [heap |-> IF fresh THEN Append(M.heap, VariableMeta) ELSE M.heap,
                    stores |-> [M.stores EXCEPT ![v.fields] = m2]],
             v |-> [v EXCEPT !.name = name]]

\* Variable(data, name=name, _fields=_fields): `self._fields = _fields or {}`
\* (_fields = 0 stands for None; an empty dict is falsy too), then pandas sets
\* the name through the name setter
Variable_init(M, name, _fields) ==
    LET new == _fields = 0 \/ M.stores[_fields] = EmptyDict
        sid == IF new THEN Len(M.stores) + 1 ELSE _fields
        M1 == IF new THEN [M EXCEPT !.stores = Append(@, EmptyDict)] ELSE M
    IN Variable_name_set(M1, [name |-> None, fields |-> sid], name)

----------------------------------------------------------------------------
(* The metadata merge *)

RECURSIVE pd_unique(_)
\* pd.unique: the distinct elements, in order of first occurrence
pd_unique(s) ==
    IF s = <<>> THEN <<>>
    ELSE LET r == pd_unique(SubSeq(s, 1, Len(s) - 1))
             x == s[Len(s)]
         IN IF \E i \in 1..Len(r) : r[i] = x THEN r ELSE Append(r, x)

RECURSIVE sum_lists(_)
\* sum(list_of_lists, [])
sum_lists(ls) ==
    IF ls = <<>> THEN <<>> ELSE ls[1] \o sum_lists(Tail(ls))

\* (faulty variant of units_operations: "*" keeps a shared unit too)
units_operations_with_mul == {"+", "-", "*"}

\* `if operation in ["+", "-"]`
units_operations == {"+", "-"}

\* _combine_variable_units_or_short_units: the value and the warnings logged
combine_variable_units_or_short_units(metas, operation, unit_or_short_unit) ==
    LET units == pd_unique([i \in 1..Len(metas) |-> metas[i][unit_or_short_unit]])
    IN IF operation \in units_operations
       THEN IF Len(units) # 1
            THEN [value |-> None, warn |-> {unit_or_short_unit}]
            ELSE [value |-> units[1], warn |-> {}]
       ELSE [value |-> None, warn |-> {}]

\* `if operation in ["+", "-", "fillna"]`
titles_operations == {"+", "-", "fillna"}

\* _combine_variables_titles_and_descriptions
combine_variables_titles_and_descriptions(metas, operation, title_or_description) ==
    IF operation \in titles_operations
    THEN LET titles == pd_unique([i \in 1..Len(metas) |-> metas[i][title_or_description]])
         IN IF Len(titles) = 1 THEN titles[1] ELSE None
    ELSE None

\* Source.to_dict().items() as a tuple, and Source.from_dict(dict(tuple))
\* (to_dict leaves out the fields that are None, from_dict restores them as None)
Source_items(src) ==
    SelectSeq(<< <<"name", src.name>>, <<"url", src.url>> >>, LAMBDA item : item[2] # None)
Source_from_items(t) ==
    [f \in {"name", "url"} |->
        IF \E i \in 1..Len(t) : t[i][1] = f
        THEN t[CHOOSE i \in 1..Len(t) : t[i][1] = f][2]
        ELSE None]

\* (faulty variant of get_unique_from_variables: two Sources with the same name
\* count as one)
get_unique_by_name(metas, sources_or_licenses) ==
    LET all == sum_lists([i \in 1..Len(metas) |-> metas[i][sources_or_licenses]])
        names == pd_unique([i \in 1..Len(all) |-> all[i].name])
    IN [i \in 1..Len(names) |->
            all[CHOOSE k \in 1..Len(all) :
                    all[k].name = names[i] /\ \A m \in 1..(k - 1) : all[m].name # names[i]]]

\* get_unique_sources_from_variables / get_unique_licenses_from_variables
get_unique_from_variables(metas, sources_or_licenses) ==
    LET all == sum_lists([i \in 1..Len(metas) |-> metas[i][sources_or_licenses]])
        uniq == pd_unique([i \in 1..Len(all) |-> Source_items(all[i])])
    IN [i \in 1..Len(uniq) |-> Source_from_items(uniq[i])]

\* (faulty variant of combine_variables_processing_logs: last operand first)
processing_logs_reversed(metas) ==
    sum_lists([i \in 1..Len(metas) |-> metas[Len(metas) + 1 - i].processing_log])

\* combine_variables_processing_logs
combine_variables_processing_logs(metas) ==
    sum_lists([i \in 1..Len(metas) |-> metas[i].processing_log])

\* an operand of an operator: a Variable v, a scalar s, or None
VarOperand(v) == [kind |-> "var", v |-> v, s |-> 0]
ScalarOperand(s) == [kind |-> "scalar", v |-> NoVar, s |-> s]
NoneOperand == [kind |-> "none", v |-> NoVar, s |-> 0]

\* hasattr(variable, "metadata"): evaluates the property of a Variable
has_metadata(x) == x.kind = "var"

\* variable.name if hasattr(variable, "name") else str(variable)
name_or_str(x) ==
    IF x.kind = "var" THEN x.v.name
    ELSE IF x.kind = "scalar" THEN ToString(x.s) ELSE "None"

RECURSIVE variables_only(_, _, _)
\* [variable for variable in variables if hasattr(variable, "metadata")]:
\* the getter of each Variable runs, in order; the first that raises ends it
variables_only(M, variables, i) ==
    IF i > Len(variables) THEN [M |-> M, err |-> "ok", addrs |-> <<>>]
    ELSE IF ~has_metadata(variables[i]) THEN variables_only(M, variables, i + 1)
    ELSE LET g == Variable_metadata(M, variables[i].v)
         IN IF g.err # "ok" THEN [M |-> g.M, err |-> g.err, addrs |-> <<>>]
            ELSE LET rest == variables_only(g.M, variables, i + 1)
                 IN [M |-> rest.M, err |-> rest.err,
                     addrs |-> IF rest.err = "ok" THEN <<g.addr>> \o rest.addrs ELSE <<>>]

\* combine_variables_metadata: the merged VariableMeta (a new object, not yet
\* stored), the memory after the getters ran, and the warnings logged
combine_variables_metadata(M, variables, operation, name) ==
    LET only == variables_only(M, variables, 1)
        metas == [i \in 1..Len(only.addrs) |-> only.M.heap[only.addrs[i]]]
        unit == combine_variable_units_or_short_units(metas, operation, "unit")
        short_unit == combine_variable_units_or_short_units(metas, operation, "short_unit")
        names == [i \in 1..Len(variables) |-> name_or_str(variables[i])]
    IN IF only.err # "ok"
       THEN [M |-> only.M, err |-> only.err, meta |-> VariableMeta, warn |-> {}]
       ELSE [M |-> only.M, err |-> "ok", warn |-> unit.warn \cup short_unit.warn,
             meta |->
               [title |-> combine_variables_titles_and_descriptions(metas, operation, "title"),
                description |->
                    combine_variables_titles_and_descriptions(metas, operation, "description"),
                unit |-> unit.value,
                short_unit |-> short_unit.value,
                sources |-> get_unique_from_variables(metas, "sources"),
                licenses |-> get_unique_from_variables(metas, "licenses"),
                processing_log |->
                    Append(combine_variables_processing_logs(metas),
                           [variable |-> name, parents |-> names, operation |-> operation])]]

\* the json.dumps(...).replace(placeholder, name) of update_variable_name, on
\* one string of the log
replace_placeholder(str, name) == IF str = UNNAMED_VARIABLE THEN name ELSE str

\* json.loads(json.dumps(processing_log).replace(UNNAMED_VARIABLE, name))
processing_log_renamed(log, name) ==
    [i \in 1..Len(log) |->
        [variable |-> replace_placeholder(log[i].variable, name),
         parents |-> [j \in 1..Len(log[i].parents) |->
                        replace_placeholder(log[i].parents[j], name)],
         operation |-> replace_placeholder(log[i].operation, name)]]

----------------------------------------------------------------------------
(* The calls *)

Call(op, h, key, tag, other, res, warn) ==
    [op |-> op, h |-> h, key |-> key, tag |-> tag, other |-> other, hr |-> 0,
     res |-> res, warn |-> warn]

NoCall == Call("none", 0, None, None, NoneOperand, "ok", {})

HasColumn(cols, name) == \E i \in 1..Len(cols) : cols[i] = name

\* DataFrame.__setitem__(key, value): the column named key gets the data, a new
\* column is appended when there is none (the data itself is not modelled)
DataFrame_setitem(cols, key) ==
    IF HasColumn(cols, key) THEN cols ELSE Append(cols, key)

Bounded ==
    /\ ncalls < MaxCalls
    /\ ncalls' = ncalls + 1

\* v = t[c]: the Variable of column c, which pandas hands the Table's _fields
\* (the same dict object) and the column's name
GetItem(h, c) ==
    /\ Bounded
    /\ Cardinality({i \in 1..Len(columns) : columns[i] = c}) = 1
    /\ vars' = [vars EXCEPT ![h] = [name |-> c, fields |-> TStore]]
    /\ last' = Call("getitem", h, c, None, NoneOperand, "ok", {})
    /\ UNCHANGED <<heap, stores, columns, index, tmeta, disk, rtab>>

\* v.name = name
SetName(h, name) ==
    /\ Bounded
    /\ vars[h] # NoVar
    /\ LET r == Variable_name_set(Mem, vars[h], name)
       IN /\ heap' = r.M.heap
          /\ stores' = r.M.stores
          /\ vars' = [vars EXCEPT ![h] = r.v]
    /\ last' = Call("setname", h, name, None, NoneOperand, "ok", {})
    /\ UNCHANGED <<columns, index, tmeta, disk, rtab>>

\* (faulty variant of operator_fields_arg: the result shares self's dict, as
\* the result of pandas' own operator would)
operator_fields_shared(self) == self.fields

\* the _fields argument the operators pass to Variable(...): none
operator_fields_arg(self) == 0

\* Variable.__add__ .. __pow__ and fillna: a new Variable named
\* UNNAMED_VARIABLE, then its metadata set to the merge of [self, other]
Operator(h, tag, other, hr, warn0) ==
    /\ Bounded
    /\ vars[h] # NoVar
    /\ other.kind = "var" => other.v # NoVar
    /\ LET self == vars[h]
           init == Variable_init(Mem, UNNAMED_VARIABLE, operator_fields_arg(self))
           c == combine_variables_metadata(init.M, <<VarOperand(self), other>>, tag,
                                           UNNAMED_VARIABLE)
           set == Variable_metadata_set([c.M EXCEPT !.heap = Append(@, c.meta)],
                                        init.v, Len(c.M.heap) + 1)
           otherh == IF other.kind = "var"
                     THEN [other EXCEPT !.v = NoVar,
                                         !.s = CHOOSE k \in Handles : vars[k] = other.v]
                     ELSE other
       IN IF c.err # "ok"
          THEN /\ heap' = c.M.heap
               /\ stores' = c.M.stores
               /\ vars' = vars
               /\ last' = Call("operator", h, None, tag, otherh, c.err, warn0)
          ELSE /\ heap' = set.M.heap
               /\ stores' = set.M.stores
               /\ vars' = [vars EXCEPT ![hr] = init.v]
               /\ last' = [Call("operator", h, None, tag, otherh, "ok", warn0 \cup c.warn)
                            EXCEPT !.hr = hr]
    /\ UNCHANGED <<columns, index, tmeta, disk, rtab>>

ArithScalar(h, tag, s, hr) == Operator(h, tag, ScalarOperand(s), hr, {})

ArithVar(h, tag, h2, hr) == Operator(h, tag, VarOperand(vars[h2]), hr, {})

\* fillna(value, inplace=...): value a scalar, a Variable or None
Fillna(h, other, inplace, hr) ==
    Operator(h, "fillna", other, hr, IF inplace THEN {"inplace"} ELSE {})

\* Table.__setitem__(key, value), value a Variable: the data first, then
\* self._fields[key] = value.metadata
SetItem(key, h) ==
    /\ Bounded
    /\ vars[h] # NoVar
    /\ columns' = DataFrame_setitem(columns, key)
    /\ LET g == Variable_metadata(Mem, vars[h])
       IN IF g.err # "ok"
          THEN /\ heap' = g.M.heap
               /\ stores' = g.M.stores
               /\ last' = Call("setitem", h, key, None, NoneOperand, g.err, {})
          ELSE /\ heap' = g.M.heap
               /\ stores' = [g.M.stores EXCEPT ![TStore] = Put(@, key, g.addr)]
               /\ last' = Call("setitem", h, key, None, NoneOperand, "ok", {})
    /\ UNCHANGED <<index, tmeta, vars, disk, rtab>>

\* (faulty variant of setitem_raw_fields: an existing record is kept)
setitem_raw_keep(m, key, addr) == IF key \in DOMAIN m THEN m ELSE Put(m, key, addr)

\* self._fields[key] = VariableMeta()
setitem_raw_fields(m, key, addr) == Put(m, key, addr)

\* Table.__setitem__(key, value), value plain data
SetItemRaw(key) ==
    /\ Bounded
    /\ columns' = DataFrame_setitem(columns, key)
    /\ heap' = Append(heap, VariableMeta)
    /\ stores' = [stores EXCEPT ![TStore] = setitem_raw_fields(@, key, Len(heap) + 1)]
    /\ last' = Call("setitem_raw", 0, key, None, NoneOperand, "ok", {})
    /\ UNCHANGED <<index, tmeta, vars, disk, rtab>>

\* v.metadata
MetadataGet(h) ==
    /\ Bounded
    /\ vars[h] # NoVar
    /\ LET g == Variable_metadata(Mem, vars[h])
       IN /\ heap' = g.M.heap
          /\ stores' = g.M.stores
          /\ last' = Call("metadata_get", h, None, None, NoneOperand, g.err, {})
    /\ UNCHANGED <<columns, index, tmeta, vars, disk, rtab>>

\* v.metadata = meta, meta a VariableMeta the caller built
MetadataSet(h, meta) ==
    /\ Bounded
    /\ vars[h] # NoVar
    /\ LET r == Variable_metadata_set([Mem EXCEPT !.heap = Append(@, meta)], vars[h],
                                      Len(heap) + 1)
       IN /\ heap' = r.M.heap
          /\ stores' = r.M.stores
          /\ last' = Call("metadata_set", h, None, None, NoneOperand, r.err, {})
    /\ UNCHANGED <<columns, index, tmeta, vars, disk, rtab>>

\* v.unit = unit, that is v.metadata.unit = unit: the getter, then a write
\* into the object it returned
SetUnit(h, unit) ==
    /\ Bounded
    /\ vars[h] # NoVar
    /\ LET g == Variable_metadata(Mem, vars[h])
       IN /\ heap' = IF g.err = "ok" THEN [g.M.heap EXCEPT ![g.addr].unit = unit]
                                      ELSE g.M.heap
          /\ stores' = g.M.stores
          /\ last' = Call("setunit", h, unit, None, NoneOperand, g.err, {})
    /\ UNCHANGED <<columns, index, tmeta, vars, disk, rtab>>

\* update_variable_name(variable, name)
UpdateVariableName(h, name) ==
    /\ Bounded
    /\ vars[h] # NoVar
    /\ LET g == Variable_metadata(Mem, vars[h])
           M1 == [g.M EXCEPT !.heap[g.addr].processing_log =
                                 processing_log_renamed(@, name)]
           r == Variable_name_set(M1, vars[h], name)
       IN IF g.err # "ok"
          THEN /\ heap' = g.M.heap
               /\ stores' = g.M.stores
               /\ vars' = vars
               /\ last' = Call("update_variable_name", h, name, None, NoneOperand, g.err, {})
          ELSE /\ heap' = r.M.heap
               /\ stores' = r.M.stores
               /\ vars' = [vars EXCEPT ![h] = r.v]
               /\ last' = Call("update_variable_name", h, name, None, NoneOperand, "ok", {})
    /\ UNCHANGED <<columns, index, tmeta, disk, rtab>>

----------------------------------------------------------------------------
(* A Table of two columns, the first with metadata, and what a caller does *)

Source1 == [name |-> "src1", url |-> "u"]

MetaA ==
    [title |-> "t1", description |-> None, unit |-> "u1", short_unit |-> "s1",
     sources |-> <<Source1>>, licenses |-> <<>>, processing_log |-> <<>>]

\* a VariableMeta a caller assigns
UserMetas == {[MetaA EXCEPT !.title = "t2"]}
UserUnits == {"u2"}
SetNames == {"c", "", None}
Keys == {"a", "c"}
RebindNames == {"c"}
MainScalars == {1}
\* the columns the caller binds to its variables
ItemsOf(h) == IF h = 1 THEN {"a", "c"} ELSE {"b"}

DefaultTableMeta == [short_name |-> None, title |-> None]

Init ==
    /\ heap = <<MetaA>>
    /\ stores = << [n \in {"a"} |-> 1] >>
    /\ columns = <<"a", "b">>
    /\ index = <<None>>
    /\ tmeta = DefaultTableMeta
    /\ vars = [h \in Handles |-> NoVar]
    /\ disk = NoFile
    /\ rtab = NoTable
    /\ last = NoCall
    /\ ncalls = 0

Next ==
    \/ \E h \in ItemHandles : \E c \in ItemsOf(h) : GetItem(h, c)
    \/ \E h \in Handles, n \in SetNames : SetName(h, n)
    \/ \E h \in Handles, s \in MainScalars, hr \in ResultHandles :
            ArithScalar(h, "+", s, hr)
    \/ \E h \in Handles, h2 \in ItemHandles, hr \in ResultHandles :
            ArithVar(h, "/", h2, hr)
    \/ \E h \in ItemHandles, hr \in ResultHandles, inplace \in BOOLEAN :
            Fillna(h, NoneOperand, inplace, hr)
    \/ \E key \in Keys, h \in Handles : SetItem(key, h)
    \/ \E key \in Keys : SetItemRaw(key)
    \/ \E h \in Handles : MetadataGet(h)
    \/ \E h \in Handles, meta \in UserMetas : MetadataSet(h, meta)
    \/ \E h \in Handles, unit \in UserUnits : SetUnit(h, unit)
    \/ \E h \in Handles, n \in RebindNames : UpdateVariableName(h, n)

Spec == Init /\ [][Next]_vars_all

----------------------------------------------------------------------------
(* The merge on its own: one operator call on the columns a and b of a Table *)
(* and on a detached earlier result, over a range of their metadata         *)

LogEntry1 == [variable |-> "a", parents |-> <<"x", "2">>, operation |-> "*"]
LogEntry2 == [variable |-> "b", parents |-> <<"y">>, operation |-> "fillna"]

MergeMetasA == {MetaA, [MetaA EXCEPT !.processing_log = <<LogEntry1>>], VariableMeta}

MergeMetasB ==
    {[title |-> t, description |-> d, unit |-> u, short_unit |-> su,
      sources |-> <<>>, licenses |-> <<>>, processing_log |-> log] :
        t \in {"t1", "t2", None}, d \in {None, "d1"}, u \in {"u1", "u2", None},
        su \in {"s1", None}, log \in {<<>>, <<LogEntry2>>, <<LogEntry1, LogEntry2>>}}

\* the metadata of a detached result of a + 1
MetaD ==
    [MetaA EXCEPT !.sources = <<>>,
                  !.processing_log = <<[variable |-> UNNAMED_VARIABLE,
                                        parents |-> <<"a", "1">>, operation |-> "+"]>>]

MergeOperands == {1, 2, 3}

InitMerge ==
    /\ \E ra \in MergeMetasA, rb \in MergeMetasB, b_has_entry \in BOOLEAN :
        /\ ~b_has_entry => rb = VariableMeta
        /\ heap = <<ra, rb, MetaD>>
        /\ stores = << IF b_has_entry THEN [n \in {"a", "b"} |-> IF n = "a" THEN 1 ELSE 2]
                                      ELSE [n \in {"a"} |-> 1],
                       [n \in {UNNAMED_VARIABLE} |-> 3] >>
    /\ columns = <<"a", "b">>
    /\ index = <<None>>
    /\ tmeta = DefaultTableMeta
    /\ vars = [h \in Handles |->
                 CASE h = 1 -> [name |-> "a", fields |-> TStore]
                   [] h = 2 -> [name |-> "b", fields |-> TStore]
                   [] h = 3 -> [name |-> UNNAMED_VARIABLE, fields |-> 2]
                   [] OTHER -> NoVar]
    /\ disk = NoFile
    /\ rtab = NoTable
    /\ last = NoCall
    /\ ncalls = MaxCalls - 1

NextMerge ==
    \/ \E h \in MergeOperands, tag \in OpTags, s \in Scalars :
            ArithScalar(h, tag, s, MergeResult)
    \/ \E h \in MergeOperands, tag \in OpTags, h2 \in MergeOperands :
            ArithVar(h, tag, h2, MergeResult)
    \/ \E h \in MergeOperands, inplace \in BOOLEAN :
        \E other \in {NoneOperand} \cup {ScalarOperand(s) : s \in Scalars}
                        \cup {VarOperand(vars[h2]) : h2 \in MergeOperands} :
            Fillna(h, other, inplace, MergeResult)

SpecMerge == InitMerge /\ [][NextMerge]_vars_all

\* the dict entry a Variable's metadata resolves to
EntryOf(v) == stores[v.fields][v.name]

\* the operands of the last operator call that are Variables, in operand order
Bearing ==
    IF last.other.kind = "var" THEN <<vars[last.h], vars[last.other.s]>>
    ELSE <<vars[last.h]>>

MetaOf(v) == heap[EntryOf(v)]

AllAgree(field) ==
    \A i, j \in 1..Len(Bearing) : MetaOf(Bearing[i])[field] = MetaOf(Bearing[j])[field]

Merged == MetaOf(vars[last.hr])

\* C2: unit and short_unit of the result are the shared value under + and -
\* when the Variables among the operands agree, unknown otherwise, with a
\* warning exactly on a disagreement under + or -; title and description are
\* the shared value under +, - and fillna when they agree, unknown otherwise.
C2_ScalarFields ==
    (last.op = "operator" /\ last.res = "ok") =>
        /\ \A f \in {"unit", "short_unit"} :
            /\ Merged[f] = IF last.tag \in {"+", "-"} /\ AllAgree(f)
                           THEN MetaOf(vars[last.h])[f] ELSE None
            /\ f \in last.warn <=> (last.tag \in {"+", "-"} /\ ~AllAgree(f))
        /\ \A f \in {"title", "description"} :
            Merged[f] = IF last.tag \in {"+", "-", "fillna"} /\ AllAgree(f)
                        THEN MetaOf(vars[last.h])[f] ELSE None

\* a + b with equal units, differing titles, and b's short_unit unknown
C2_Witness ==
    /\ last.op = "operator" /\ last.res = "ok" /\ last.tag = "+"
    /\ last.h = 1 /\ last.other.kind = "var" /\ last.other.s = 2
    /\ Merged.unit = "u1" /\ MetaOf(vars[2]).unit = "u1"
    /\ MetaOf(vars[2]).title = "t2" /\ Merged.title = None
    /\ last.warn = {"short_unit"}

\* the identifier of an operand in the new log entry
OperandId(x) ==
    IF x.kind = "var" THEN vars[x.s].name
    ELSE IF x.kind = "scalar" THEN ToString(x.s) ELSE "None"

----------------------------------------------------------------------------
(* The merge of sources and licenses: one operator call on operands whose *)
(* source and license lists repeat and overlap                            *)

Source2 == [name |-> "src1", url |-> None]
Source3 == [name |-> "src2", url |-> "u"]
License1 == [name |-> "CC", url |-> "l"]
License2 == [name |-> "CC", url |-> None]

\* the lists of length at most 2 over a set of records
ListsOver(S) == {<<>>} \cup {<<x>> : x \in S} \cup {<<x, y>> : x \in S, y \in S}

SourceMetas ==
    {[VariableMeta EXCEPT !.sources = ss, !.licenses = ls] :
        ss \in ListsOver({Source1, Source2, Source3}),
        ls \in {<<>>, <<License1, License1>>, <<License2, License1>>}}

MetaE == [VariableMeta EXCEPT !.sources = <<Source3, Source1>>, !.licenses = <<License1>>]

SourceTags == {"+", "*"}

InitSources ==
    /\ \E ra \in SourceMetas, rb \in SourceMetas : heap = <<ra, rb, MetaE>>
    /\ stores = << [n \in {"a", "b"} |-> IF n = "a" THEN 1 ELSE 2],
                   [n \in {UNNAMED_VARIABLE} |-> 3] >>
    /\ columns = <<"a", "b">>
    /\ index = <<None>>
    /\ tmeta = DefaultTableMeta
    /\ vars = [h \in Handles |->
                 CASE h = 1 -> [name |-> "a", fields |-> TStore]
                   [] h = 2 -> [name |-> "b", fields |-> TStore]
                   [] h = 3 -> [name |-> UNNAMED_VARIABLE, fields |-> 2]
                   [] OTHER -> NoVar]
    /\ disk = NoFile
    /\ rtab = NoTable
    /\ last = NoCall
    /\ ncalls = MaxCalls - 1

NextSources ==
    \/ \E h \in MergeOperands, tag \in SourceTags, s \in MainScalars :
            ArithScalar(h, tag, s, MergeResult)
    \/ \E h \in MergeOperands, tag \in SourceTags, h2 \in MergeOperands :
            ArithVar(h, tag, h2, MergeResult)
    \/ \E h \in MergeOperands :
        \E other \in {NoneOperand} \cup {VarOperand(vars[h2]) : h2 \in MergeOperands} :
            Fillna(h, other, FALSE, MergeResult)

SpecSources == InitSources /\ [][NextSources]_vars_all

\* the position of the first x in list
FirstAt(list, x) ==
    CHOOSE k \in 1..Len(list) : list[k] = x /\ \A m \in 1..(k - 1) : list[m] # x

\* res holds each record of list once, at the rank of its first occurrence
IsFirstSeenDedup(res, list) ==
    /\ \A i, j \in 1..Len(res) : i # j => res[i] # res[j]
    /\ {res[i] : i \in 1..Len(res)} = {list[k] : k \in 1..Len(list)}
    /\ \A i, j \in 1..Len(res) : i < j => FirstAt(list, res[i]) < FirstAt(list, res[j])

\* the operands' lists of a field, one after the other in operand order
OperandLists(field) ==
    IF Len(Bearing) = 2 THEN MetaOf(Bearing[1])[field] \o MetaOf(Bearing[2])[field]
    ELSE MetaOf(Bearing[1])[field]

\* C11: the result's sources are the Variables' source lists in operand order
\* with duplicates removed, two Sources being duplicates exactly when all
\* their fields are equal, each kept at its first occurrence; licenses
\* likewise; a Variable merged with itself or with a scalar gives its own
\* deduplicated lists.
C11_SourcesLicenses ==
    (last.op = "operator" /\ last.res = "ok") =>
        \A field \in {"sources", "licenses"} :
            /\ IsFirstSeenDedup(Merged[field], OperandLists(field))
            /\ (Len(Bearing) = 1 \/ Bearing[1] = Bearing[2]) =>
                    IsFirstSeenDedup(Merged[field], MetaOf(Bearing[1])[field])

\* two different columns were merged whose source lists share a Source and
\* hold two Sources that differ in one field only
C11_Witness ==
    /\ last.op = "operator" /\ last.res = "ok"
    /\ Len(Bearing) = 2 /\ Bearing[1] # Bearing[2]
    /\ MetaOf(Bearing[1]).sources = <<Source1, Source2>>
    /\ MetaOf(Bearing[2]).sources = <<Source3, Source1>>
    /\ Merged.sources = <<Source1, Source2, Source3>>
    /\ MetaOf(Bearing[1]).licenses = <<License2, License1>>
    /\ Merged.licenses = <<License2, License1>>

----------------------------------------------------------------------------
(* Persistence: csv / feather data file plus JSON sidecar *)

Range(seq) == {seq[i] : i \in 1..Len(seq)}

IsNamed(n) == n \notin {None, ""}

\* Table.primary_key: [n for n in self.index.names if n]
primary_key(idx) == SelectSeq(idx, IsNamed)

\* (faulty variant of all_columns: unnamed entries are kept)
all_columns_unfiltered(idx, cols) == idx \o cols

\* Table.all_columns: filter(None, list(self.index.names) + list(self.columns))
all_columns(idx, cols) == SelectSeq(idx \o cols, IsNamed)

\* VariableMeta.to_dict(): the fields that are set
VariableMeta_to_dict(meta) ==
    [f \in {g \in DOMAIN meta : meta[g] # VariableMeta[g]} |-> meta[f]]

\* VariableMeta.from_dict(d): a field the dict lacks is unknown / empty
VariableMeta_from_dict(d) ==
    [f \in DOMAIN VariableMeta |-> IF f \in DOMAIN d THEN d[f] ELSE VariableMeta[f]]

\* TableMeta.to_dict() and TableMeta(**d)
TableMeta_to_dict(meta) == [f \in {g \in DOMAIN meta : meta[g] # None} |-> meta[f]]
TableMeta_from_dict(d) ==
    [f \in DOMAIN DefaultTableMeta |-> IF f \in DOMAIN d THEN d[f] ELSE None]

RECURSIVE save_fields(_, _, _)
\* {col: self._fields[col].to_dict() for col in self.all_columns}: the dict and
\* the memory after the defaultdict lookups
save_fields(M, cols, i) ==
    IF i > Len(cols) THEN [M |-> M, fields |-> EmptyDict]
    ELSE LET g == dict_getitem(M, TStore, cols[i])
             rest == save_fields(g.M, cols, i + 1)
         IN [M |-> rest.M,
             fields |-> IF cols[i] \in DOMAIN rest.fields THEN rest.fields
                        ELSE Put(rest.fields, cols[i], VariableMeta_to_dict(g.M.heap[g.addr]))]

\* Table._save_metadata: the JSON object written
save_metadata(M, idx, cols, meta) ==
    LET f == save_fields(M, all_columns(idx, cols), 1)
    IN [M |-> f.M,
        sidecar |-> [metadata |-> TableMeta_to_dict(meta),
                     primary_key |-> primary_key(idx),
                     fields |-> f.fields]]

HasDuplicates(seq) == \E i, j \in 1..Len(seq) : i < j /\ seq[i] = seq[j]

\* DataFrame.to_csv: the header row, index levels first, an unnamed level as ""
csv_header(idx, cols) == [i \in 1..Len(idx) |-> IF idx[i] = None THEN "" ELSE idx[i]] \o cols

\* pd.read_csv on that header: an empty name becomes "Unnamed: <position>", a
\* repeated name gets ".<count>"
csv_read_columns(header) ==
    [i \in 1..Len(header) |->
        LET before == Cardinality({j \in 1..(i - 1) : header[j] = header[i]})
        IN IF header[i] = "" THEN "Unnamed: " \o ToString(i - 1)
           ELSE IF before = 0 THEN header[i]
           ELSE header[i] \o "." \o ToString(before)]

\* DataFrame.reset_index: the levels become the first columns, an unnamed level
\* named "index" (one level) or "level_<i>"
reset_index_columns(idx, cols) ==
    [i \in 1..Len(idx) |->
        IF idx[i] # None THEN idx[i]
        ELSE IF Len(idx) = 1 THEN "index" ELSE "level_" \o ToString(i - 1)] \o cols

\* what the Table is when written: its columns, index, TableMeta and the
\* VariableMeta each of its columns resolves to
Written(M) ==
    [columns |-> columns, index |-> index, metadata |-> tmeta,
     fields |-> [c \in Range(all_columns(index, columns)) |->
                    IF c \in DOMAIN M.stores[TStore] THEN M.heap[M.stores[TStore][c]]
                    ELSE VariableMeta]]

\* Table.to_csv(path)
ToCsv(path_is_csv) ==
    /\ Bounded
    /\ LET w == save_metadata(Mem, index, columns, tmeta)
       IN IF ~path_is_csv
          THEN /\ UNCHANGED <<heap, stores, disk>>
               /\ last' = Call("to_csv", 0, None, None, NoneOperand, "ValueError", {})
          ELSE /\ heap' = w.M.heap
               /\ stores' = w.M.stores
               /\ disk' = [codec |-> "csv", header |-> csv_header(index, columns),
                           sidecar |-> w.sidecar, table |-> Written(Mem)]
               /\ last' = Call("to_csv", 0, None, None, NoneOperand, "ok", {})
    /\ UNCHANGED <<columns, index, tmeta, vars, rtab>>

\* Table.to_feather(path)
ToFeather(path_is_feather) ==
    /\ Bounded
    /\ LET w == save_metadata(Mem, index, columns, tmeta)
           header == IF primary_key(index) # <<>> THEN reset_index_columns(index, columns)
                     ELSE columns
           \* reset_index cannot insert a level whose name a column has, and
           \* feather takes no repeated column name
           fails == HasDuplicates(header)
       IN IF ~path_is_feather \/ fails
          THEN /\ UNCHANGED <<heap, stores, disk>>
               /\ last' = Call("to_feather", 0, None, None, NoneOperand, "ValueError", {})
          ELSE /\ heap' = w.M.heap
               /\ stores' = w.M.stores
               /\ disk' = [codec |-> "feather", header |-> header,
                           sidecar |-> w.sidecar, table |-> Written(Mem)]
               /\ last' = Call("to_feather", 0, None, None, NoneOperand, "ok", {})
    /\ UNCHANGED <<columns, index, tmeta, vars, rtab>>

\* DataFrame.set_index(keys, inplace=True): the columns named become the index
set_index(cols, keys) == SelectSeq(cols, LAMBDA c : c \notin Range(keys))

\* the Table a read builds from the file's columns and the sidecar
read_table(codec, cols, sidecar) ==
    LET pk == sidecar.primary_key
    IN [codec |-> codec,
        columns |-> IF pk # <<>> THEN set_index(cols, pk) ELSE cols,
        index |-> IF pk # <<>> THEN pk ELSE <<None>>,
        metadata |-> TableMeta_from_dict(sidecar.metadata),
        fields |-> [k \in DOMAIN sidecar.fields |-> VariableMeta_from_dict(sidecar.fields[k])]]

\* Table.read_csv(path)
ReadCsv(path_is_csv) ==
    /\ Bounded
    /\ disk.codec = "csv"
    /\ IF ~path_is_csv
       THEN /\ rtab' = rtab
            /\ last' = Call("read_csv", 0, None, None, NoneOperand, "ValueError", {})
       ELSE /\ rtab' = read_table("csv", csv_read_columns(disk.header), disk.sidecar)
            /\ last' = Call("read_csv", 0, None, None, NoneOperand, "ok", {})
    /\ UNCHANGED <<heap, stores, columns, index, tmeta, vars, disk>>

\* Table.read_feather(path)
ReadFeather(path_is_feather) ==
    /\ Bounded
    /\ disk.codec = "feather"
    /\ IF ~path_is_feather
       THEN /\ rtab' = rtab
            /\ last' = Call("read_feather", 0, None, None, NoneOperand, "ValueError", {})
       ELSE /\ rtab' = read_table("feather", disk.header, disk.sidecar)
            /\ last' = Call("read_feather", 0, None, None, NoneOperand, "ok", {})
    /\ UNCHANGED <<heap, stores, columns, index, tmeta, vars, disk>>

\* t.set_index(keys, inplace=True), keys columns of t
SetIndex(keys) ==
    /\ Bounded
    /\ \A i \in 1..Len(keys) : Cardinality({j \in 1..Len(columns) : columns[j] = keys[i]}) = 1
    /\ index' = keys
    /\ columns' = set_index(columns, keys)
    /\ last' = Call("set_index", 0, keys[1], None, NoneOperand, "ok", {})
    /\ UNCHANGED <<heap, stores, tmeta, vars, disk, rtab>>

\* del t[c]: the column goes, its VariableMeta stays in _fields
DelItem(c) ==
    /\ Bounded
    /\ HasColumn(columns, c)
    /\ columns' = SelectSeq(columns, LAMBDA n : n # c)
    /\ last' = Call("delitem", 0, c, None, NoneOperand, "ok", {})
    /\ UNCHANGED <<heap, stores, index, tmeta, vars, disk, rtab>>

\* str.replace and str.lower on the names of the model
str_replace(name, old, new) ==
    IF name = "C d" /\ old = " " /\ new = "_" THEN "C_d" ELSE name
str_lower(name) ==
    CASE name = "C d" -> "c d" [] name = "C_d" -> "c_d" [] OTHER -> name

\* underscore(name); no name of the model holds a "("
underscore(name) ==
    IF name = None THEN None
    ELSE str_lower(str_replace(str_replace(name, " ", "_"), "-", "_"))

\* underscore_table(t)
UnderscoreTable ==
    /\ Bounded
    /\ columns' = [i \in 1..Len(columns) |-> underscore(columns[i])]
    /\ index' = [i \in 1..Len(index) |-> underscore(index[i])]
    /\ last' = Call("underscore_table", 0, None, None, NoneOperand, "ok", {})
    /\ UNCHANGED <<heap, stores, tmeta, vars, disk, rtab>>

MetaC == [VariableMeta EXCEPT !.unit = "u3", !.processing_log = <<LogEntry1>>]

IndexKeys == {<<"a">>, <<"b", "a">>}

InitIO ==
    /\ heap = <<MetaA, MetaC>>
    /\ stores = << [n \in {"a", "C d"} |-> IF n = "a" THEN 1 ELSE 2] >>
    /\ columns = <<"a", "b", "C d">>
    /\ index = <<None>>
    /\ tmeta \in {DefaultTableMeta, [short_name |-> "tab", title |-> None]}
    /\ vars = [h \in Handles |-> NoVar]
    /\ disk = NoFile
    /\ rtab = NoTable
    /\ last = NoCall
    /\ ncalls = 0

NextIO ==
    \/ \E keys \in IndexKeys : SetIndex(keys)
    \/ \E c \in {"a", "b", "C d"} : DelItem(c)
    \/ UnderscoreTable
    \/ \E key \in Keys : SetItemRaw(key)
    \/ \E ok \in BOOLEAN : ToCsv(ok)
    \/ \E ok \in BOOLEAN : ToFeather(ok)
    \/ \E ok \in BOOLEAN : ReadCsv(ok)
    \/ \E ok \in BOOLEAN : ReadFeather(ok)

SpecIO == InitIO /\ [][NextIO]_vars_all

\* DataFrame.to_dict(), the data left out: the data columns' names and the
\* index levels that label the rows
to_dict(tab) == [cols |-> Range(tab.columns), rows |-> tab.index]

\* Table.equals_table
equals_table(tab, rhs) ==
    /\ tab.metadata = rhs.metadata
    /\ to_dict(tab) = to_dict(rhs)

\* C8: a Table with a primary key and a column with metadata, written and read
\* back with the same codec, gives an equal Table with the same primary key and
\* the same VariableMeta for every column of the written Table.
C8_RoundTrip ==
    (/\ last.op \in {"read_csv", "read_feather"}
     /\ last.res = "ok"
     /\ primary_key(disk.table.index) # <<>>
     /\ \E c \in DOMAIN disk.table.fields : disk.table.fields[c] # VariableMeta)
    => /\ equals_table(rtab, disk.table)
       /\ primary_key(rtab.index) = primary_key(disk.table.index)
       /\ \A c \in DOMAIN disk.table.fields :
            /\ c \in DOMAIN rtab.fields
            /\ rtab.fields[c] = disk.table.fields[c]

\* C9: the sidecar written has the Table's named index levels, in order, as
\* primary_key, and fields for exactly the Table's named index levels and
\* columns, each the VariableMeta that column resolves to.
C9_SidecarFollowsColumns ==
    (last.op \in {"to_csv", "to_feather"} /\ last.res = "ok") =>
        /\ disk.sidecar.primary_key = SelectSeq(index, LAMBDA n : n # None /\ n # "")
        /\ DOMAIN disk.sidecar.fields =
                {n \in Range(index) \cup Range(columns) : n # None /\ n # ""}
        /\ \A c \in DOMAIN disk.sidecar.fields :
                disk.sidecar.fields[c] = VariableMeta_to_dict(disk.table.fields[c])

\* a keyed Table was written whose store still holds the record of a column
\* renamed away, and one of whose columns never had metadata
C9_Witness ==
    /\ last.op \in {"to_csv", "to_feather"} /\ last.res = "ok"
    /\ primary_key(index) # <<>>
    /\ "C d" \notin Range(columns) /\ "C d" \in DOMAIN stores[TStore]
    /\ "C d" \notin DOMAIN disk.sidecar.fields
    /\ "c_d" \in DOMAIN disk.sidecar.fields /\ disk.sidecar.fields["c_d"] = EmptyDict
    /\ disk.sidecar.fields["a"] # EmptyDict

----------------------------------------------------------------------------
(* Properties of assignment, renaming and rebinding *)

NoPlaceholder(log) ==
    \A i \in 1..Len(log) :
        /\ log[i].variable # UNNAMED_VARIABLE
        /\ log[i].operation # UNNAMED_VARIABLE
        /\ \A j \in 1..Len(log[i].parents) : log[i].parents[j] # UNNAMED_VARIABLE

\* C1: after t[n] = result, result a detached Variable named with the
\* placeholder, no processing-log entry of the Table's column n contains the
\* placeholder, and the new entry's variable is n.
C1_PlaceholderRebind ==
    (/\ last.op = "setitem"
     /\ last.res = "ok"
     /\ vars[last.h].name = UNNAMED_VARIABLE
     /\ vars[last.h].fields # TStore)
    => LET log == heap[stores[TStore][last.key]].processing_log
       IN /\ NoPlaceholder(log)
          /\ log # <<>>
          /\ log[Len(log)].variable = last.key

\* what a rename of the Variable at handle h to a non-null name does, in terms
\* of the dict s the Variable refers to, its old name x and the new name y
RenameFrame(h, s, x, y) ==
    /\ y \in DOMAIN stores'[s]
    /\ stores'[s][y] = stores[s][x]
    /\ vars'[h] = [name |-> y, fields |-> s]
    /\ \A k \in (DOMAIN stores[s]) \ {x, y} :
            k \in DOMAIN stores'[s] /\ stores'[s][k] = stores[s][k]
    /\ DOMAIN stores'[s] \subseteq (DOMAIN stores[s]) \cup {y}
    /\ \A s2 \in (1..Len(stores)) \ {s} : stores'[s2] = stores[s2]
    /\ heap' = heap

IsRename(h) ==
    /\ ncalls' = ncalls + 1
    /\ last'.op = "setname"
    /\ last'.h = h
    /\ last'.key # None
    /\ vars[h].name \in DOMAIN stores[vars[h].fields]

\* C5 as stated: renaming a Variable named x, with record R under x, to y puts R
\* under y, leaves no record under x, names the Variable y and changes no other
\* entry.
C5_RenameMoves_AsStated ==
    [][\A h \in Handles :
        IsRename(h) =>
            /\ RenameFrame(h, vars[h].fields, vars[h].name, last'.key)
            /\ vars[h].name \notin DOMAIN stores'[vars[h].fields]]_vars_all

\* C5 (amended): for a non-empty name x and y # x the above holds; for y = x the
\* record stays under x and the dict is unchanged.
C5_RenameMoves ==
    [][\A h \in Handles :
        (IsRename(h) /\ vars[h].name # "") =>
            /\ RenameFrame(h, vars[h].fields, vars[h].name, last'.key)
            /\ last'.key # vars[h].name => vars[h].name \notin DOMAIN stores'[vars[h].fields]
            /\ last'.key = vars[h].name => stores' = stores]_vars_all

\* a rename a -> c of the extracted column a has moved the record of a (the
\* object at address 1) over a record the Table already held under c
C5_Witness ==
    /\ last.op = "setname"
    /\ last.key = "c"
    /\ vars[last.h] = [name |-> "c", fields |-> TStore]
    /\ "a" \notin DOMAIN stores[TStore]
    /\ stores[TStore]["c"] = 1
    /\ heap[1] = MetaA
    /\ Len(heap) > 1

\* C6: a later change made through a detached Variable v (here v.unit = u)
\* changes no record of the Table's store, v having been assigned into the
\* Table or not: the Table holds copies.
C6_AssignCopies ==
    [][\A h \in Handles :
        (/\ ncalls' = ncalls + 1
         /\ last'.op = "setunit"
         /\ last'.res = "ok"
         /\ last'.h = h
         /\ vars[h].fields # TStore)
        => \A k \in DOMAIN stores[TStore] :
                /\ k \in DOMAIN stores'[TStore]
                /\ heap'[stores'[TStore][k]] = heap[stores[TStore][k]]]_vars_all

\* C7: t[key] = plain data leaves a fresh default VariableMeta under key and
\* every other entry of the Table's store as it was.
C7_RawAssignErases ==
    [][(ncalls' = ncalls + 1 /\ last'.op = "setitem_raw") =>
        LET k == last'.key
        IN /\ DOMAIN stores'[TStore] = (DOMAIN stores[TStore]) \cup {k}
           /\ stores'[TStore][k] > Len(heap)
           /\ heap'[stores'[TStore][k]] = VariableMeta
           /\ \A n \in (DOMAIN stores[TStore]) \ {k} : stores'[TStore][n] = stores[TStore][n]
           /\ \A i \in 1..Len(heap) : heap'[i] = heap[i]
           /\ \A s \in (1..Len(stores)) \ {TStore} : stores'[s] = stores[s]]_vars_all

\* column a, which held MetaA, was assigned plain data while another column
\* still holds a non-default record
C7_Witness ==
    /\ last.op = "setitem_raw"
    /\ last.key = "a"
    /\ heap[stores[TStore]["a"]] = VariableMeta
    /\ \E k \in (DOMAIN stores[TStore]) \ {"a"} : heap[stores[TStore][k]] # VariableMeta

\* C10: a call of assign_column, of the metadata getter or setter or of the
\* rebind that fails leaves the Table's columns, both stores and the
\* Variables' names as they were.
C10_AllOrNothing ==
    [][(/\ ncalls' = ncalls + 1
        /\ last'.op \in {"setitem", "setitem_raw", "metadata_get", "metadata_set",
                         "update_variable_name"}
        /\ last'.res # "ok")
       => /\ columns' = columns
          /\ index' = index
          /\ stores' = stores
          /\ heap' = heap
          /\ vars' = vars]_vars_all

\* a rename, to a non-null name, of the Variable at handle h, which was
\* extracted from the Table and bears the name of one of its columns
IsAliasRename(h) ==
    /\ ncalls' = ncalls + 1
    /\ last'.op = "setname"
    /\ last'.h = h
    /\ last'.key # None
    /\ vars[h].fields = TStore
    /\ HasColumn(columns, vars[h].name)

\* the record column c of the Table resolves to
Resolved(c) == IF c \in DOMAIN stores[TStore] THEN heap[stores[TStore][c]] ELSE VariableMeta

\* afterwards the Table's store has no record under m, and t[m].metadata gives
\* a fresh default record
GoneFromTable(m) ==
    /\ m \notin DOMAIN stores'[TStore]
    /\ LET g == dict_getitem([heap |-> heap', stores |-> stores'], TStore, m)
       IN g.addr > Len(heap') /\ g.M.heap[g.addr] = VariableMeta

\* C12 as stated: renaming the extracted Variable from m to n leaves the
\* Table's store without a record under m and with the former record of m under
\* n, whatever the Table held under n; the Table's columns are not renamed.
C12_AliasRename_AsStated ==
    [][\A h \in Handles :
        IsAliasRename(h) =>
            /\ GoneFromTable(vars[h].name)
            /\ last'.key \in DOMAIN stores'[TStore]
            /\ heap'[stores'[TStore][last'.key]] = Resolved(vars[h].name)
            /\ columns' = columns /\ index' = index]_vars_all

\* C12 (amended): if the Table's store holds a record under m and n # m, the
\* above holds, the record under n being the very object that was under m and
\* no other entry changing; if n = m nothing changes; if the store holds no
\* record under m, the record the Table holds under n is kept, or n gets a fresh
\* default record if there was none. The columns are never renamed.
C12_AliasRename ==
    [][\A h \in Handles :
        IsAliasRename(h) =>
            LET m == vars[h].name
                n == last'.key
                S == stores[TStore]
            IN /\ columns' = columns /\ index' = index
               /\ vars'[h] = [name |-> n, fields |-> TStore]
               /\ (m \in DOMAIN S /\ n # m) =>
                    /\ GoneFromTable(m)
                    /\ stores'[TStore] = [k \in ((DOMAIN S) \ {m}) \cup {n} |->
                                            IF k = n THEN S[m] ELSE S[k]]
                    /\ heap' = heap
               /\ (m \in DOMAIN S /\ n = m) => (stores' = stores /\ heap' = heap)
               /\ (m \notin DOMAIN S /\ n \in DOMAIN S) => (stores' = stores /\ heap' = heap)
               /\ (m \notin DOMAIN S /\ n \notin DOMAIN S) =>
                    /\ stores'[TStore] = [k \in (DOMAIN S) \cup {n} |->
                                            IF k = n THEN Len(heap) + 1 ELSE S[k]]
                    /\ heap' = Append(heap, VariableMeta)]_vars_all

\* the Variable extracted as column a was renamed to c while the Table has both
\* columns a and c: the Table's store lost its entry for a, and its column c now
\* resolves to what was the record of a
C12_Witness ==
    /\ last.op = "setname"
    /\ last.key = "c"
    /\ vars[last.h] = [name |-> "c", fields |-> TStore]
    /\ HasColumn(columns, "a") /\ HasColumn(columns, "c")
    /\ "a" \notin DOMAIN stores[TStore]
    /\ heap[stores[TStore]["c"]] = MetaA
    /\ \E i \in 1..Len(heap) : heap[i] = VariableMeta /\ \A k \in DOMAIN stores[TStore] : stores[TStore][k] # i

====
